---- MODULE Spec2Model ----
(***************************************************************************)
(* Lost-and-found backend: the claim lifecycle and the item-status state   *)
(* machine of app/routes/claims.py and app/routes/items.py over the        *)
(* tables of app/models.py.                                                *)
(*                                                                         *)
(* The persisted store (lost_items, found_items, item_media, claims,       *)
(* claim_media) holds committed rows only.  A request handler runs in a    *)
(* database transaction: its reads see the snapshot taken when it starts,  *)
(* its writes become visible together at db.session.commit().  A handler   *)
(* that only returns early, or that touches fresh rows only, is one step;  *)
(* create_claim and verify_claim are two steps (read/validate, then        *)
(* upload/commit) so that other requests may commit in between.            *)
(*                                                                         *)
(* Row ids are the positions in the table sequences (auto-increment in     *)
(* commit order).  Text inputs are the values after sanitize_input.        *)
(***************************************************************************)
EXTENDS Integers, Sequences, FiniteSets, TLC

\* ---------------------------------------------------------------- bounds
MaxItems == 2
MaxClaims == 2
MaxFiles == 2
NumProcs == 2

Procs == 1..NumProcs

\* ----------------------------------------------------------------- users
\* The users table (registration is outside the modelled core): one
\* administrator and one ordinary user.  Identity "3" is a well-formed token
\* subject with no user row; "abc" is a subject int() cannot parse.
users == (1 :> [role |-> "admin"]) @@ (2 :> [role |-> "user"])

IntOf == [s \in {"1", "2", "3"} |-> CASE s = "1" -> 1 [] s = "2" -> 2 [] s = "3" -> 3]

IsInt(s) == s \in DOMAIN IntOf

\* A lookup that finds a row for every id, kept to show that C23 notices a
\* missing owner check
UserExists_any(id) == TRUE

UserExists(id) == id \in DOMAIN users

\* ------------------------------------------------------------- variables
VARIABLES lost_items, found_items, item_media, claims, claim_media, txn, resp

store == <<lost_items, found_items, item_media, claims, claim_media>>

vars == <<lost_items, found_items, item_media, claims, claim_media, txn, resp>>

\* ---------------------------------------------------------------- tables
\* A found item created with the lost item's status, kept to show that C15
\* notices a wrong initial status
InitialStatus_pending(kind) == "pending"

InitialStatus(kind) == IF kind = "lost" THEN "pending" ELSE "available"

\* A lookup that ignores the kind tag, kept to show that C29 notices a claim
\* resolved in the wrong table
Table_lostOnly(kind) == lost_items

Table(kind) == IF kind = "lost" THEN lost_items ELSE found_items

\* LostItem.query.get / FoundItem.query.get
ItemExists(kind, id) == kind \in {"lost", "found"} /\ id \in 1..Len(Table(kind))

\* Claim.get_item: the row the (item_type, item_id) tag resolves to
HasItem(c) == ItemExists(c.item_type, c.item_id)

GetItem(c) == Table(c.item_type)[c.item_id]

ClaimExists(id) == id \in 1..Len(claims)

MediaOfClaim(id) == SelectSeq(claim_media, LAMBDA m : m.claim_id = id)

\* --------------------------------------------------------------- uploads
\* A file slot of a multipart request: "file" is a FileStorage with a
\* filename (truthy), "empty" one without (falsy).  A video field may also
\* be absent ("none").
FileLists(n) == UNION {[1..k -> {"file", "empty"}] : k \in 0..n}

VideoIn == {"none", "empty", "file"}

\* A truth test that takes an empty slot for a file, kept to show that C12
\* notices a loop that does not skip empty slots
Truthy_any(f) == f \in {"file", "empty"}

Truthy(f) == f = "file"

\* A media service whose failures go unnoticed, kept to show that C13
\* notices an unchecked upload result
UploadOk_always(n, failAt) == TRUE

\* upload_media returns (True, {...}) or (False, reason).  failAt is the
\* 1-based position, among the uploads a handler attempts, of the first one
\* the media service fails (0: none fails).
UploadOk(n, failAt) == n # failAt

\* create_claim's proof loops: images first, then the video.  st.n counts
\* the uploads attempted so far; "proof" is the secure_url of an uploaded
\* proof file.
RECURSIVE ClaimImages(_, _, _, _)
ClaimImages(files, i, failAt, st) ==
    IF i > Len(files) \/ ~st.ok THEN st
    ELSE IF ~Truthy(files[i]) THEN ClaimImages(files, i + 1, failAt, st)
    ELSE IF ~UploadOk(st.n + 1, failAt)
         THEN [st EXCEPT !.ok = FALSE, !.error = "image_upload_failed", !.n = st.n + 1]
    ELSE ClaimImages(files, i + 1, failAt,
             [st EXCEPT !.n = st.n + 1, !.primary_media_set = TRUE,
                        !.media = Append(st.media,
                            [media_type |-> "image", is_primary |-> ~st.primary_media_set,
                             url |-> "proof"])])

ClaimVideo(video, failAt, st) ==
    IF ~st.ok \/ ~Truthy(video) THEN st
    ELSE IF ~UploadOk(st.n + 1, failAt)
         THEN [st EXCEPT !.ok = FALSE, !.error = "video_upload_failed", !.n = st.n + 1]
    ELSE [st EXCEPT !.n = st.n + 1, !.primary_media_set = TRUE,
                    !.media = Append(st.media,
                        [media_type |-> "video", is_primary |-> ~st.primary_media_set,
                         url |-> "proof"])]

ClaimUploads(images, video, failAt) ==
    ClaimVideo(video, failAt,
        ClaimImages(images, 1, failAt,
            [ok |-> TRUE, error |-> "", n |-> 0, primary_media_set |-> FALSE, media |-> <<>>]))

\* report_lost_item / report_found_item attachment loops: is_primary and the
\* item's image_url follow the enumerate() index of the slot.  URLs are
\* "secure" (the secure_url of an upload, the original), "preview" (the
\* blurred derivative upload_media builds from the public_id) and "legacy"
\* (an image_url the client sent, stored as url and as preview_url).
RECURSIVE ItemImages(_, _, _, _)
ItemImages(files, i, failAt, st) ==
    IF i > Len(files) \/ ~st.ok THEN st
    ELSE IF ~Truthy(files[i]) THEN ItemImages(files, i + 1, failAt, st)
    ELSE IF ~UploadOk(st.n + 1, failAt)
         THEN [st EXCEPT !.ok = FALSE, !.error = "image_upload_failed", !.n = st.n + 1]
    ELSE ItemImages(files, i + 1, failAt,
             [st EXCEPT !.n = st.n + 1,
                        !.primary_image_url = IF i = 1 THEN "secure" ELSE st.primary_image_url,
                        !.media = Append(st.media,
                            [media_type |-> "image", is_primary |-> (i = 1),
                             url |-> "secure", preview_url |-> "preview"])])

ItemLegacyUrl(files, image_url, st) ==
    IF st.ok /\ image_url # "" /\ Len(files) = 0
    THEN [st EXCEPT !.primary_image_url = "legacy",
                    !.media = Append(st.media,
                        [media_type |-> "image", is_primary |-> TRUE,
                         url |-> "legacy", preview_url |-> "legacy"])]
    ELSE st

\* A video step that ignores the media service's answer, kept to show that
\* C24 notices an item committed after a failed video upload
ItemVideo_unchecked(video, failAt, st) ==
    IF ~st.ok \/ ~Truthy(video) THEN st
    ELSE [st EXCEPT !.n = st.n + 1,
                    !.media = IF UploadOk(st.n + 1, failAt)
                              THEN Append(st.media,
                                       [media_type |-> "video", is_primary |-> FALSE,
                                        url |-> "secure", preview_url |-> "preview"])
                              ELSE st.media]

ItemVideo(video, failAt, st) ==
    IF ~st.ok \/ ~Truthy(video) THEN st
    ELSE IF ~UploadOk(st.n + 1, failAt)
         THEN [st EXCEPT !.ok = FALSE, !.error = "video_upload_failed", !.n = st.n + 1]
    ELSE [st EXCEPT !.n = st.n + 1,
                    !.media = Append(st.media,
                        [media_type |-> "video", is_primary |-> FALSE,
                         url |-> "secure", preview_url |-> "preview"])]

ItemUploads(files, image_url, video, failAt) ==
    ItemVideo(video, failAt,
        ItemLegacyUrl(files, image_url,
            ItemImages(files, 1, failAt,
                [ok |-> TRUE, error |-> "", n |-> 0, primary_image_url |-> "none", media |-> <<>>])))

\* ------------------------------------------------------------- responses
Response(op, code, error) == [op |-> op, code |-> code, error |-> error]

NoResponse == Response("none", 0, "")

\* ----------------------------------------------------------- transactions
\* txn is the sequence of open transactions, one per request in flight: a
\* create_claim between its flush and its commit (pc "uploading": the
\* flushed row and the files still to upload), a verify_claim between its
\* reads and its commit (pc "verifying": the update it holds in its session
\* and the item status it loaded).
Blank ==
    [pc |-> "", item_type |-> "", item_id |-> 0, claimer_id |-> 0, details |-> "",
     images |-> <<>>, video |-> "none", claim_id |-> 0, new_status |-> "",
     seen_item |-> "none"]

Creating == {p \in 1..Len(txn) : txn[p].pc = "uploading"}

Close(p) == SubSeq(txn, 1, p - 1) \o SubSeq(txn, p + 1, Len(txn))

\* ------------------------------------------------------------ item create
\* A report request: has_data (a body was sent), body_id (the body's
\* user_id / finder_id, 0 when absent), identity (the token subject), title
\* ("" missing, "toolong" over 200 characters), fields_ok (the optional
\* fields pass their validators), images, image_url ("" absent, "malformed"
\* rejected by validate_url), video.
\* data.get('user_id') or get_jwt_identity(), then validate_integer and
\* User.query.get: body_id 0 is an absent (falsy) body field.
OwnerRef(body_id, identity) ==
    IF body_id # 0 THEN [valid |-> body_id >= 1, id |-> body_id]
    ELSE IF IsInt(identity) THEN [valid |-> IntOf[identity] >= 1, id |-> IntOf[identity]]
    ELSE [valid |-> FALSE, id |-> 0]

\* The outcome of report_lost_item / report_found_item: the response and,
\* on success, the rows committed.
ReportItemResult(rq, failAt, commit_ok) ==
    LET owner == OwnerRef(rq.body_id, rq.identity)
        up == ItemUploads(rq.images, rq.image_url, rq.video, failAt)
        fail(code, error) == [ok |-> FALSE, code |-> code, error |-> error,
                              owner |-> 0, up |-> up]
    IN  IF ~rq.has_data THEN fail(400, "validation_error")
        ELSE IF rq.title \in {"", "toolong"} THEN fail(400, "validation_error")
        ELSE IF ~owner.valid THEN fail(400, "validation_error")
        ELSE IF ~rq.fields_ok \/ rq.image_url = "malformed" THEN fail(400, "validation_error")
        ELSE IF ~UserExists(owner.id) THEN fail(404, "user_not_found")
        ELSE IF ~up.ok THEN fail(400, up.error)
        ELSE IF ~commit_ok THEN fail(500, "internal")
        ELSE [ok |-> TRUE, code |-> 201, error |-> "", owner |-> owner.id, up |-> up]

ItemOp(kind) == IF kind = "lost" THEN "report_lost_item" ELSE "report_found_item"

ReportItem(kind, rq, failAt, commit_ok) ==
    LET r == ReportItemResult(rq, failAt, commit_ok)
        row == [user_id |-> r.owner, status |-> InitialStatus(kind),
                image_url |-> r.up.primary_image_url]
        id == Len(Table(kind)) + 1
        rows == [k \in 1..Len(r.up.media) |->
                    [item_id |-> id, item_type |-> kind,
                     media_type |-> r.up.media[k].media_type,
                     is_primary |-> r.up.media[k].is_primary,
                     url |-> r.up.media[k].url,
                     preview_url |-> r.up.media[k].preview_url]]
    IN  /\ r.ok => Len(lost_items) + Len(found_items) < MaxItems
        /\ lost_items' = IF r.ok /\ kind = "lost" THEN Append(lost_items, row) ELSE lost_items
        /\ found_items' = IF r.ok /\ kind = "found" THEN Append(found_items, row)
                          ELSE found_items
        /\ item_media' = IF r.ok THEN item_media \o rows ELSE item_media
        /\ resp' = Response(ItemOp(kind), r.code, r.error)
        /\ UNCHANGED <<claims, claim_media, txn>>

\* ----------------------------------------------------------- create_claim
\* A create request: identity (the token subject), has_data, item_type,
\* item_id (0 when absent), details ("" absent, "toolong" over 2000
\* characters), images (the proof_images slots), video.

\* A faulty filter that ignores the kind tag, kept to show that C5 notices it
PendingClaims_anyKind(item_type, item_id, claimer_id) ==
    {i \in 1..Len(claims) :
        /\ claims[i].item_id = item_id
        /\ claims[i].claimer_id = claimer_id
        /\ claims[i].status = "pending"}

\* A faulty filter that counts claims of every status, kept to show that C39
\* notices a claimer locked out by a rejected claim
PendingClaims_anyStatus(item_type, item_id, claimer_id) ==
    {i \in 1..Len(claims) :
        /\ claims[i].item_id = item_id
        /\ claims[i].item_type = item_type
        /\ claims[i].claimer_id = claimer_id}

\* Claim.query.filter_by(item_id, item_type, claimer_id, status='pending')
PendingClaims(item_type, item_id, claimer_id) ==
    {i \in 1..Len(claims) :
        /\ claims[i].item_id = item_id
        /\ claims[i].item_type = item_type
        /\ claims[i].claimer_id = claimer_id
        /\ claims[i].status = "pending"}

\* A proof check that lets every request through, kept to show that C7
\* notices a missing check
ProofSupplied_always(images, video) == TRUE

\* if not proof_images and not proof_video: a list is falsy only when it
\* has no slot at all, a FileStorage when it has no filename.
ProofSupplied(images, video) == Len(images) > 0 \/ Truthy(video)

\* A status check that forgets closed items, kept to show that C6 notices it
ItemUnavailable_claimedOnly(item) == item.status = "claimed"

\* if item.status in ['claimed', 'closed']
ItemUnavailable(item) == item.status \in {"claimed", "closed"}

\* create_claim with the status check placed before the proof check, kept
\* to show that C14 notices the order of the two
CreateClaimChecks_statusFirst(rq) ==
    IF ~IsInt(rq.identity) THEN Response("create_claim", 401, "invalid_token")
    ELSE IF ~rq.has_data THEN Response("create_claim", 400, "validation_error")
    ELSE IF rq.item_id = 0 \/ rq.item_type = ""
         THEN Response("create_claim", 400, "validation_error")
    ELSE IF rq.item_id < 1 THEN Response("create_claim", 400, "validation_error")
    ELSE IF rq.item_type \notin {"lost", "found"}
         THEN Response("create_claim", 400, "validation_error")
    ELSE IF rq.details = "toolong" THEN Response("create_claim", 400, "validation_error")
    ELSE IF ~ItemExists(rq.item_type, rq.item_id)
         THEN Response("create_claim", 404, "item_not_found")
    ELSE IF ItemUnavailable(Table(rq.item_type)[rq.item_id])
         THEN Response("create_claim", 400, "item_unavailable")
    ELSE IF ~ProofSupplied(rq.images, rq.video)
         THEN Response("create_claim", 400, "proof_required")
    ELSE IF PendingClaims(rq.item_type, rq.item_id, IntOf[rq.identity]) # {}
         THEN Response("create_claim", 400, "duplicate_claim")
    ELSE IF ~UserExists(IntOf[rq.identity]) THEN Response("create_claim", 500, "internal")
    ELSE Response("create_claim", 0, "flushed")

\* create_claim up to db.session.flush(): the first failing check decides
\* the response; "flushed" means the INSERT went through and the uploads
\* follow.  The INSERT fails on the claimer_id foreign key when the subject
\* has no user row.
CreateClaimChecks(rq) ==
    IF ~IsInt(rq.identity) THEN Response("create_claim", 401, "invalid_token")
    ELSE IF ~rq.has_data THEN Response("create_claim", 400, "validation_error")
    ELSE IF rq.item_id = 0 \/ rq.item_type = ""
         THEN Response("create_claim", 400, "validation_error")
    ELSE IF rq.item_id < 1 THEN Response("create_claim", 400, "validation_error")
    ELSE IF rq.item_type \notin {"lost", "found"}
         THEN Response("create_claim", 400, "validation_error")
    ELSE IF rq.details = "toolong" THEN Response("create_claim", 400, "validation_error")
    ELSE IF ~ItemExists(rq.item_type, rq.item_id)
         THEN Response("create_claim", 404, "item_not_found")
    ELSE IF ~ProofSupplied(rq.images, rq.video)
         THEN Response("create_claim", 400, "proof_required")
    ELSE IF ItemUnavailable(Table(rq.item_type)[rq.item_id])
         THEN Response("create_claim", 400, "item_unavailable")
    ELSE IF PendingClaims(rq.item_type, rq.item_id, IntOf[rq.identity]) # {}
         THEN Response("create_claim", 400, "duplicate_claim")
    ELSE IF ~UserExists(IntOf[rq.identity]) THEN Response("create_claim", 500, "internal")
    ELSE Response("create_claim", 0, "flushed")

CreateClaimBegin(workers, rq) ==
    LET r == CreateClaimChecks(rq)
    IN  /\ Len(txn) < workers
        /\ IF r.error = "flushed"
           THEN /\ Len(claims) + Cardinality(Creating) < MaxClaims
                /\ txn' = Append(txn,
                              [Blank EXCEPT !.pc = "uploading", !.item_type = rq.item_type,
                                            !.item_id = rq.item_id,
                                            !.claimer_id = IntOf[rq.identity],
                                            !.details = rq.details, !.images = rq.images,
                                            !.video = rq.video])
                /\ UNCHANGED resp
           ELSE /\ resp' = r
                /\ UNCHANGED txn
        /\ UNCHANGED store

\* create_claim from the proof loops to db.session.commit()
CreateClaimFinish(p, failAt, commit_ok) ==
    LET t == txn[p]
        up == ClaimUploads(t.images, t.video, failAt)
        id == Len(claims) + 1
        row == [item_id |-> t.item_id, item_type |-> t.item_type,
                claimer_id |-> t.claimer_id, status |-> "pending",
                verification_details |-> t.details]
        rows == [k \in 1..Len(up.media) |->
                    [claim_id |-> id, media_type |-> up.media[k].media_type,
                     is_primary |-> up.media[k].is_primary, url |-> up.media[k].url]]
        done == up.ok /\ commit_ok
    IN  /\ p \in 1..Len(txn)
        /\ t.pc = "uploading"
        /\ failAt <= up.n
        /\ claims' = IF done THEN Append(claims, row) ELSE claims
        /\ claim_media' = IF done THEN claim_media \o rows ELSE claim_media
        /\ resp' = IF ~up.ok THEN Response("create_claim", 400, up.error)
                   ELSE IF ~commit_ok THEN Response("create_claim", 500, "internal")
                   ELSE Response("create_claim", 201, "")
        /\ txn' = Close(p)
        /\ UNCHANGED <<lost_items, found_items, item_media>>

\* cloudinary.uploader.upload is called with no timeout option and the
\* handler has no cancellation: a media service that takes the request and
\* never answers leaves the handler inside upload_media, after the flush and
\* before commit or rollback.  No step leads out of "stalled".
UploadStall(p) ==
    /\ p \in 1..Len(txn)
    /\ txn[p].pc = "uploading"
    /\ ClaimUploads(txn[p].images, txn[p].video, 0).n >= 1
    /\ txn' = [txn EXCEPT ![p].pc = "stalled"]
    /\ UNCHANGED <<store, resp>>

\* ----------------------------------------------------------- verify_claim
\* A verify request: identity, claim_id (the route's <int:claim_id>),
\* new_status ("" absent), details ("" absent, "toolong" over 2000).
\* Two faulty tables, kept to show that C1 and C2 notice a wrong table: one
\* lets a verified claim be rejected, one lets a returned claim be verified.
allowed_transitions_rejectVerified(current) ==
    CASE current = "pending" -> {"verified", "returned", "rejected"}
      [] current = "verified" -> {"returned", "rejected"}
      [] OTHER -> {}

allowed_transitions_reopenReturned(current) ==
    CASE current = "pending" -> {"verified", "returned", "rejected"}
      [] current = "verified" -> {"returned"}
      [] current = "returned" -> {"verified"}
      [] OTHER -> {}

\* A table that lets a rejected claim be verified, kept to show that C17
\* notices a terminal status that is not terminal
allowed_transitions_unreject(current) ==
    CASE current = "pending" -> {"verified", "returned", "rejected"}
      [] current = "verified" -> {"returned"}
      [] current = "rejected" -> {"verified"}
      [] OTHER -> {}

allowed_transitions(current) ==
    CASE current = "pending" -> {"verified", "returned", "rejected"}
      [] current = "verified" -> {"returned"}
      [] current = "returned" -> {}
      [] current = "rejected" -> {}
      [] OTHER -> {}

\* A faulty role test, kept to show that C10 notices a missing role check
IsAdmin_anyUser(id) == TRUE

\* An inverted role test, kept to show that C30 notices a list handed to a
\* user without the admin role
IsAdmin_nonAdmin(id) == users[id].role # "admin"

\* admin_user.role == 'admin'
IsAdmin(id) == users[id].role = "admin"

\* Checks without the test for an unchanged status, kept to show that C26
\* notices a self-transition answered by another check
VerifyClaimChecks_noSelfCheck(rq) ==
    IF rq.claim_id < 1 THEN Response("verify_claim", 400, "validation_error")
    ELSE IF ~IsInt(rq.identity) THEN Response("verify_claim", 401, "invalid_token")
    ELSE IF ~UserExists(IntOf[rq.identity])
         THEN Response("verify_claim", 404, "admin_not_found")
    ELSE IF ~IsAdmin(IntOf[rq.identity])
         THEN Response("verify_claim", 403, "forbidden")
    ELSE IF ~ClaimExists(rq.claim_id) THEN Response("verify_claim", 404, "claim_not_found")
    ELSE IF rq.new_status \notin {"verified", "returned", "rejected"}
         THEN Response("verify_claim", 400, "validation_error")
    ELSE IF rq.new_status \notin allowed_transitions(claims[rq.claim_id].status)
         THEN Response("verify_claim", 400, "invalid_transition")
    ELSE IF rq.details = "toolong" THEN Response("verify_claim", 400, "validation_error")
    ELSE Response("verify_claim", 0, "accepted")

\* verify_claim up to the in-memory update: "accepted" means every check
\* passed.
VerifyClaimChecks(rq) ==
    IF rq.claim_id < 1 THEN Response("verify_claim", 400, "validation_error")
    ELSE IF ~IsInt(rq.identity) THEN Response("verify_claim", 401, "invalid_token")
    ELSE IF ~UserExists(IntOf[rq.identity])
         THEN Response("verify_claim", 404, "admin_not_found")
    ELSE IF ~IsAdmin(IntOf[rq.identity])
         THEN Response("verify_claim", 403, "forbidden")
    ELSE IF ~ClaimExists(rq.claim_id) THEN Response("verify_claim", 404, "claim_not_found")
    ELSE IF rq.new_status \notin {"verified", "returned", "rejected"}
         THEN Response("verify_claim", 400, "validation_error")
    ELSE IF rq.new_status = claims[rq.claim_id].status
         THEN Response("verify_claim", 400, "already_in_status")
    ELSE IF rq.new_status \notin allowed_transitions(claims[rq.claim_id].status)
         THEN Response("verify_claim", 400, "invalid_transition")
    ELSE IF rq.details = "toolong" THEN Response("verify_claim", 400, "validation_error")
    ELSE Response("verify_claim", 0, "accepted")

VerifyClaimBegin(workers, rq) ==
    LET r == VerifyClaimChecks(rq)
    IN  /\ Len(txn) < workers
        /\ IF r.error = "accepted"
           THEN /\ txn' = Append(txn,
                              [Blank EXCEPT !.pc = "verifying", !.claim_id = rq.claim_id,
                                            !.new_status = rq.new_status,
                                            !.details = rq.details,
                                            !.seen_item =
                                                IF HasItem(claims[rq.claim_id])
                                                THEN GetItem(claims[rq.claim_id]).status
                                                ELSE "none"])
                /\ UNCHANGED resp
           ELSE /\ resp' = r
                /\ UNCHANGED txn
        /\ UNCHANGED store

\* A flush that never writes the item, kept to show that C9 notices it
ItemUpdate_none(item, seen, new_status) == item

\* A faulty assignment, kept to show that C3 notices a wrong item status
ItemStatusFor_swapped(new_status) ==
    CASE new_status = "verified" -> "closed"
      [] new_status = "returned" -> "claimed"
      [] OTHER -> "unchanged"

\* A faulty assignment, kept to show that C27 notices an item closed by a
\* rejection
ItemStatusFor_rejectCloses(new_status) ==
    CASE new_status = "verified" -> "claimed"
      [] new_status = "returned" -> "closed"
      [] new_status = "rejected" -> "closed"
      [] OTHER -> "unchanged"

\* A faulty assignment, kept to show that C38 notices an item reopened by a
\* rejection
ItemStatusFor_rejectReopens(new_status) ==
    CASE new_status = "verified" -> "claimed"
      [] new_status = "returned" -> "closed"
      [] new_status = "rejected" -> "pending"
      [] OTHER -> "unchanged"

\* The item status verify_claim assigns for a new claim status
ItemStatusFor(new_status) ==
    CASE new_status = "verified" -> "claimed"
      [] new_status = "returned" -> "closed"
      [] OTHER -> "unchanged"

\* An UPDATE that leaves the status column out, kept to show that C34
\* notices an item moved without its claim
ClaimUpdate_detailsOnly(c, new_status, details) ==
    [c EXCEPT !.verification_details = IF details # "" THEN details ELSE @]

\* An UPDATE that always writes the details column, kept to show that C36
\* notices creation details erased by a verify without details
ClaimUpdate_overwrite(c, new_status, details) ==
    [c EXCEPT !.status = new_status, !.verification_details = details]

\* The UPDATE of the claim row at flush: status always (it differs from the
\* one read), verification_details only when truthy.
ClaimUpdate(c, new_status, details) ==
    [c EXCEPT !.status = new_status,
              !.verification_details = IF details # "" THEN details ELSE @]

\* A flush that closes the item of a rejected claim, kept to show that C16
\* notices an item status changed by another kind of verify
ItemUpdate_onReject(item, seen, new_status) ==
    IF new_status = "rejected" THEN [item EXCEPT !.status = "closed"]
    ELSE IF ItemStatusFor(new_status) # "unchanged" /\ ItemStatusFor(new_status) # seen
    THEN [item EXCEPT !.status = ItemStatusFor(new_status)]
    ELSE item

\* The UPDATE of the item row at flush: the session writes the status column
\* only when the assigned value differs from the one it loaded.
ItemUpdate(item, seen, new_status) ==
    IF ItemStatusFor(new_status) # "unchanged" /\ ItemStatusFor(new_status) # seen
    THEN [item EXCEPT !.status = ItemStatusFor(new_status)]
    ELSE item

\* verify_claim from the in-memory update to db.session.commit()
VerifyClaimCommit(p, commit_ok) ==
    LET t == txn[p]
        c == claims[t.claim_id]
        touch(kind, tbl) ==
            IF commit_ok /\ t.seen_item # "none" /\ c.item_type = kind
            THEN [tbl EXCEPT ![c.item_id] = ItemUpdate(@, t.seen_item, t.new_status)]
            ELSE tbl
    IN  /\ p \in 1..Len(txn)
        /\ t.pc = "verifying"
        /\ claims' = IF commit_ok
                     THEN [claims EXCEPT ![t.claim_id] = ClaimUpdate(@, t.new_status, t.details)]
                     ELSE claims
        /\ lost_items' = touch("lost", lost_items)
        /\ found_items' = touch("found", found_items)
        /\ resp' = IF commit_ok THEN Response("verify_claim", 200, "")
                   ELSE Response("verify_claim", 500, "internal")
        /\ txn' = Close(p)
        /\ UNCHANGED <<item_media, claim_media>>

\* ---------------------------------------------------------------- inputs
\* The requests a specification draws: every combination of the fields the
\* business checks read, and one request per way of being malformed.
ReportBase ==
    [has_data |-> TRUE, body_id |-> 0, identity |-> "2", title |-> "title",
     fields_ok |-> TRUE, images |-> <<>>, image_url |-> "", video |-> "none"]

ReportMalformed ==
    {[ReportBase EXCEPT !.has_data = FALSE],
     [ReportBase EXCEPT !.title = ""],
     [ReportBase EXCEPT !.fields_ok = FALSE],
     [ReportBase EXCEPT !.identity = "abc"],
     [ReportBase EXCEPT !.body_id = 3]}

CreateBase ==
    [identity |-> "2", has_data |-> TRUE, item_type |-> "lost", item_id |-> 1,
     details |-> "claimer", images |-> <<"file">>, video |-> "none"]

CreateWellFormed(Identities, Images, Videos) ==
    {[CreateBase EXCEPT !.identity = i, !.item_type = k, !.item_id = n,
                        !.images = f, !.video = v] :
        i \in Identities, k \in {"lost", "found"}, n \in 1..MaxItems,
        f \in Images, v \in Videos}

CreateMalformed ==
    {[CreateBase EXCEPT !.identity = "abc"],
     [CreateBase EXCEPT !.has_data = FALSE],
     [CreateBase EXCEPT !.item_type = ""],
     [CreateBase EXCEPT !.item_type = "other"],
     [CreateBase EXCEPT !.item_id = 0],
     [CreateBase EXCEPT !.item_id = -1],
     [CreateBase EXCEPT !.details = "toolong"]}

VerifyBase == [identity |-> "1", claim_id |-> 1, new_status |-> "verified", details |-> ""]

VerifyWellFormed(Identities, Details) ==
    {[VerifyBase EXCEPT !.identity = i, !.claim_id = n, !.new_status = s, !.details = d] :
        i \in Identities, n \in 1..MaxClaims,
        s \in {"verified", "returned", "rejected"}, d \in Details}

VerifyMalformed ==
    {[VerifyBase EXCEPT !.identity = "abc"],
     [VerifyBase EXCEPT !.claim_id = 0],
     [VerifyBase EXCEPT !.new_status = ""],
     [VerifyBase EXCEPT !.new_status = "pending"],
     [VerifyBase EXCEPT !.details = "toolong"]}

\* ---------------------------------------------------------- serialization
\* ItemMedia.to_dict: 'url' is present only with include_secure ("absent"
\* stands for a missing key).
MediaToDict(m, include_secure) ==
    [media_type |-> m.media_type, preview_url |-> m.preview_url,
     is_primary |-> m.is_primary,
     url |-> IF include_secure THEN m.url ELSE "absent"]

\* item.media.order_by(is_primary desc, created_at asc), serialized
MediaOfItem(kind, id, include_secure) ==
    LET own(primary) ==
            SelectSeq(item_media, LAMBDA m : /\ m.item_type = kind
                                             /\ m.item_id = id
                                             /\ m.is_primary = primary)
        ordered == own(TRUE) \o own(FALSE)
    IN  [k \in 1..Len(ordered) |-> MediaToDict(ordered[k], include_secure)]

\* LostItem.to_dict / FoundItem.to_dict
ItemToDict(kind, id, include_secure_media) ==
    [id |-> id, item_type |-> kind, user_id |-> Table(kind)[id].user_id,
     status |-> Table(kind)[id].status, image_url |-> Table(kind)[id].image_url,
     media |-> MediaOfItem(kind, id, include_secure_media)]

\* Claim.to_dict: the claim's columns and its item's image_url, status and
\* media; the claim's own proof media are not part of it.
ClaimToDict(id, include_secure_media) ==
    LET c == claims[id]
    IN  [id |-> id, item_id |-> c.item_id, item_type |-> c.item_type,
         claimer_id |-> c.claimer_id, status |-> c.status,
         verification_details |-> c.verification_details,
         item_image_url |-> IF HasItem(c) THEN GetItem(c).image_url ELSE "none",
         item_status |-> IF HasItem(c) THEN GetItem(c).status ELSE "none",
         item_media |-> IF HasItem(c)
                        THEN MediaOfItem(c.item_type, c.item_id, include_secure_media)
                        ELSE <<>>]

\* ------------------------------------------------------------------ reads
\* get_lost_item / get_found_item: no authentication
GetItemResult(kind, id) ==
    IF id < 1 THEN [code |-> 400, error |-> "validation_error", item |-> <<>>]
    ELSE IF ~ItemExists(kind, id) THEN [code |-> 404, error |-> "item_not_found", item |-> <<>>]
    ELSE [code |-> 200, error |-> "", item |-> <<ItemToDict(kind, id, FALSE)>>]

\* get_claim: no authentication
GetClaimResult(id) ==
    IF id < 1 THEN [code |-> 400, error |-> "validation_error", claim |-> <<>>]
    ELSE IF ~ClaimExists(id) THEN [code |-> 404, error |-> "claim_not_found", claim |-> <<>>]
    ELSE [code |-> 200, error |-> "", claim |-> <<ClaimToDict(id, FALSE)>>]

\* get_claim_media: the output holds the claim and the item, both serialized
\* with include_secure_media (empty sequences on failure).
GetClaimMediaResult(identity, id) ==
    LET fail(code, error) == [code |-> code, error |-> error, claim |-> <<>>, item |-> <<>>]
    IN  IF ~IsInt(identity) THEN fail(401, "invalid_token")
        ELSE IF ~UserExists(IntOf[identity]) \/ ~IsAdmin(IntOf[identity])
             THEN fail(403, "forbidden")
        ELSE IF id < 1 THEN fail(400, "validation_error")
        ELSE IF ~ClaimExists(id) THEN fail(404, "claim_not_found")
        ELSE IF ~HasItem(claims[id]) THEN fail(404, "item_not_found")
        ELSE [code |-> 200, error |-> "",
              claim |-> <<ClaimToDict(id, TRUE)>>,
              item |-> <<ItemToDict(claims[id].item_type, claims[id].item_id, TRUE)>>]

\* A read answers from the committed rows and changes nothing.
GetItemRead(kind, id) ==
    /\ resp' = Response(IF kind = "lost" THEN "get_lost_item" ELSE "get_found_item",
                        GetItemResult(kind, id).code, GetItemResult(kind, id).error)
    /\ UNCHANGED <<store, txn>>

\* A read that marks the row it served, kept to show that C21 notices a
\* read route that writes
GetClaimRead_marking(id) ==
    /\ resp' = Response("get_claim", GetClaimResult(id).code, GetClaimResult(id).error)
    /\ claims' = IF ClaimExists(id)
                 THEN [claims EXCEPT ![id].verification_details = "viewed"]
                 ELSE claims
    /\ UNCHANGED <<lost_items, found_items, item_media, claim_media, txn>>

GetClaimRead(id) ==
    /\ resp' = Response("get_claim", GetClaimResult(id).code, GetClaimResult(id).error)
    /\ UNCHANGED <<store, txn>>

GetClaimMedia(identity, id) ==
    /\ resp' = Response("get_claim_media", GetClaimMediaResult(identity, id).code,
                        GetClaimMediaResult(identity, id).error)
    /\ UNCHANGED <<store, txn>>

\* order_by(created_at.desc()): the ids of a table of n rows, newest first
NewestFirst(n) == [k \in 1..n |-> n + 1 - k]

ClaimStatuses == {"pending", "verified", "returned", "rejected"}

ItemStatuses(kind) == {InitialStatus(kind), "claimed", "closed"}

\* get_user_claims: no authentication; the claims of one user, optionally
\* filtered by status ("" stands for no filter)
GetUserClaimsResult(user_id, status) ==
    LET fail(code, error) == [code |-> code, error |-> error, claims |-> <<>>]
        ids == SelectSeq(NewestFirst(Len(claims)),
                         LAMBDA i : /\ claims[i].claimer_id = user_id
                                    /\ status # "" => claims[i].status = status)
    IN  IF user_id < 1 THEN fail(400, "validation_error")
        ELSE IF ~UserExists(user_id) THEN fail(404, "user_not_found")
        ELSE IF status # "" /\ status \notin ClaimStatuses THEN fail(400, "validation_error")
        ELSE [code |-> 200, error |-> "",
              claims |-> [k \in 1..Len(ids) |-> ClaimToDict(ids[k], FALSE)]]

\* get_all_claims: every claim, optionally filtered by status, for a subject
\* whose user row has the admin role
GetAllClaimsResult(identity, status) ==
    LET fail(code, error) == [code |-> code, error |-> error, claims |-> <<>>]
        ids == SelectSeq(NewestFirst(Len(claims)),
                         LAMBDA i : status # "" => claims[i].status = status)
    IN  IF ~IsInt(identity) THEN fail(401, "invalid_token")
        ELSE IF ~UserExists(IntOf[identity]) \/ ~IsAdmin(IntOf[identity])
             THEN fail(403, "forbidden")
        ELSE IF status # "" /\ status \notin ClaimStatuses THEN fail(400, "validation_error")
        ELSE [code |-> 200, error |-> "",
              claims |-> [k \in 1..Len(ids) |-> ClaimToDict(ids[k], FALSE)]]

\* get_lost_items / get_found_items: no authentication; the items of one
\* table, optionally filtered by status
GetItemsResult(kind, status) ==
    LET ids == SelectSeq(NewestFirst(Len(Table(kind))),
                         LAMBDA i : status # "" => Table(kind)[i].status = status)
    IN  IF status # "" /\ status \notin ItemStatuses(kind)
        THEN [code |-> 400, error |-> "validation_error", items |-> <<>>]
        ELSE [code |-> 200, error |-> "",
              items |-> [k \in 1..Len(ids) |-> ItemToDict(kind, ids[k], FALSE)]]

GetUserClaims(user_id, status) ==
    /\ resp' = Response("get_user_claims", GetUserClaimsResult(user_id, status).code,
                        GetUserClaimsResult(user_id, status).error)
    /\ UNCHANGED <<store, txn>>

GetAllClaims(identity, status) ==
    /\ resp' = Response("get_all_claims", GetAllClaimsResult(identity, status).code,
                        GetAllClaimsResult(identity, status).error)
    /\ UNCHANGED <<store, txn>>

GetItems(kind, status) ==
    /\ resp' = Response(IF kind = "lost" THEN "get_lost_items" ELSE "get_found_items",
                        GetItemsResult(kind, status).code, GetItemsResult(kind, status).error)
    /\ UNCHANGED <<store, txn>>

\* --------------------------------------------------------- specifications
Init ==
    /\ lost_items = <<>>
    /\ found_items = <<>>
    /\ item_media = <<>>
    /\ claims = <<>>
    /\ claim_media = <<>>
    /\ txn = <<>>
    /\ resp = NoResponse

ReportItemStep(Requests) ==
    \E kind \in {"lost", "found"}, rq \in Requests, commit_ok \in BOOLEAN :
        ReportItem(kind, rq, 0, commit_ok)

CreateClaimBeginStep(workers, Requests) ==
    \E rq \in Requests : CreateClaimBegin(workers, rq)

CreateClaimFinishStep ==
    \E p \in Procs, failAt \in 0..(MaxFiles + 1), commit_ok \in BOOLEAN :
        CreateClaimFinish(p, failAt, commit_ok)

VerifyClaimBeginStep(workers, Requests) ==
    \E rq \in Requests : VerifyClaimBegin(workers, rq)

VerifyClaimCommitStep ==
    \E p \in Procs, commit_ok \in BOOLEAN : VerifyClaimCommit(p, commit_ok)

\* Requests served concurrently by up to NumProcs workers: one claimer, the
\* administrator, and the requests that reach the store.
Next ==
    \/ ReportItemStep({ReportBase})
    \/ CreateClaimBeginStep(NumProcs, CreateWellFormed({"2"}, {<<"file">>}, {"none"}))
    \/ CreateClaimFinishStep
    \/ VerifyClaimBeginStep(NumProcs, VerifyWellFormed({"1"}, {"admin"}))
    \/ VerifyClaimCommitStep

Spec == Init /\ [][Next]_vars

\* The same concurrent requests with the handlers' own steps weakly fair: a
\* handler that has passed its checks runs on to its commit or rollback.
\* Nothing obliges a client to send a request.
FairSpec ==
    /\ Init
    /\ [][Next]_vars
    /\ WF_vars(CreateClaimFinishStep)
    /\ WF_vars(VerifyClaimCommitStep)

\* Requests served one at a time by one worker, the verify requests in every
\* shape: three subjects (administrator, user, no user row), present and
\* absent details, malformed fields; items reported in every shape.
VerifyRequests == VerifyWellFormed({"1", "2", "3"}, {"", "admin"}) \cup VerifyMalformed

VerifyNext ==
    \/ txn = <<>> /\ ReportItemStep({ReportBase} \cup ReportMalformed)
    \/ CreateClaimBeginStep(1, CreateWellFormed({"2"}, {<<"file">>}, {"none"}))
    \/ CreateClaimFinishStep
    \/ VerifyClaimBeginStep(1, VerifyRequests)
    \/ VerifyClaimCommitStep

VerifySpec == Init /\ [][VerifyNext]_vars

\* Requests served one at a time by one worker, the create requests in every
\* shape: a claimer with every video slot and every list of proof slots in
\* which only the last slot may hold a file, a second claimer, a subject
\* without a user row, malformed fields; claims verified or returned.
ProofLists ==
    {f \in FileLists(MaxFiles) : \A i \in 1..(Len(f) - 1) : f[i] = "empty"}

CreateRequests ==
    CreateWellFormed({"2"}, ProofLists, VideoIn)
        \cup CreateWellFormed({"1"}, {<<"file">>}, {"none"})
        \cup {[CreateBase EXCEPT !.identity = "3"]}
        \cup CreateMalformed

CreateNext ==
    \/ txn = <<>> /\ ReportItemStep({ReportBase})
    \/ CreateClaimBeginStep(1, CreateRequests)
    \/ CreateClaimFinishStep
    \/ VerifyClaimBeginStep(1, {rq \in VerifyWellFormed({"1"}, {"admin"}) :
                                   rq.new_status # "rejected"})
    \/ VerifyClaimCommitStep

CreateSpec == Init /\ [][CreateNext]_vars

\* Requests served one at a time by one worker, the items reported with
\* every shape of media (uploaded images, a legacy image_url, a video, media
\* service failures), and the read routes called by every kind of subject.
ReportWithMedia ==
    {ReportBase,
     [ReportBase EXCEPT !.images = <<"file">>],
     [ReportBase EXCEPT !.images = <<"empty", "file">>, !.video = "file"],
     [ReportBase EXCEPT !.image_url = "legacy"]}

ReportItemMediaStep ==
    \E kind \in {"lost", "found"}, rq \in ReportWithMedia,
       failAt \in 0..MaxFiles, commit_ok \in BOOLEAN :
        ReportItem(kind, rq, failAt, commit_ok)

GetItemReadStep == \E kind \in {"lost", "found"}, id \in 0..MaxItems : GetItemRead(kind, id)

GetClaimReadStep == \E id \in 0..MaxClaims : GetClaimRead(id)

GetClaimMediaStep ==
    \E identity \in {"1", "2", "3", "abc"}, id \in 0..MaxClaims : GetClaimMedia(identity, id)

MediaNext ==
    \/ txn = <<>> /\ ReportItemMediaStep
    \/ CreateClaimBeginStep(1, CreateWellFormed({"2"}, {<<"file">>}, {"none"}))
    \/ CreateClaimFinishStep
    \/ VerifyClaimBeginStep(1, VerifyWellFormed({"1"}, {"admin"}))
    \/ VerifyClaimCommitStep
    \/ txn = <<>> /\ GetItemReadStep
    \/ txn = <<>> /\ GetClaimReadStep
    \/ txn = <<>> /\ GetClaimMediaStep

MediaSpec == Init /\ [][MediaNext]_vars

\* Create requests served one at a time by one worker with every list of
\* proof slots up to MaxFiles and every video slot, against open items.
UploadNext ==
    \/ txn = <<>> /\ ReportItemStep({ReportBase})
    \/ CreateClaimBeginStep(1, CreateWellFormed({"2"}, FileLists(MaxFiles), VideoIn))
    \/ CreateClaimFinishStep

UploadSpec == Init /\ [][UploadNext]_vars

\* Items reported one at a time in every shape: the owner named by the
\* token alone or by the body (another user, an id without a user row),
\* every shape of media, malformed fields, media service failures at every
\* upload; and the item read routes.
ItemRequests ==
    {[rq EXCEPT !.body_id = b] :
        rq \in ReportWithMedia
                 \cup {[ReportBase EXCEPT !.images = <<"file", "file">>, !.video = "file"]},
        b \in {0, 1, 3}}
        \cup ReportMalformed

ReportItemAnyStep ==
    \E kind \in {"lost", "found"}, rq \in ItemRequests,
       failAt \in 0..(MaxFiles + 1), commit_ok \in BOOLEAN :
        /\ failAt <= ItemUploads(rq.images, rq.image_url, rq.video, 0).n
        /\ ReportItem(kind, rq, failAt, commit_ok)

ListFilters == {"", "claimed", "pending", "bogus"}

GetItemsStep == \E kind \in {"lost", "found"}, status \in ListFilters : GetItems(kind, status)

ItemNext ==
    \/ ReportItemAnyStep
    \/ GetItemReadStep
    \/ GetItemsStep

ItemSpec == Init /\ [][ItemNext]_vars

\* Requests served one at a time by one worker, the writes in their plain
\* shape, and every read route called by every kind of subject with every
\* kind of filter.
GetUserClaimsStep ==
    \E user_id \in 0..3, status \in ListFilters : GetUserClaims(user_id, status)

GetAllClaimsStep ==
    \E identity \in {"1", "2", "3", "abc"}, status \in ListFilters :
        GetAllClaims(identity, status)

ReadNext ==
    \/ txn = <<>> /\ ReportItemStep({ReportBase})
    \/ CreateClaimBeginStep(1, CreateWellFormed({"2"}, {<<"file">>}, {"none"}))
    \/ CreateClaimFinishStep
    \/ VerifyClaimBeginStep(1, VerifyWellFormed({"1"}, {"admin"}))
    \/ VerifyClaimCommitStep
    \/ txn = <<>> /\ GetItemReadStep
    \/ txn = <<>> /\ GetItemsStep
    \/ txn = <<>> /\ GetClaimReadStep
    \/ txn = <<>> /\ GetClaimMediaStep
    \/ txn = <<>> /\ GetUserClaimsStep
    \/ txn = <<>> /\ GetAllClaimsStep

ReadSpec == Init /\ [][ReadNext]_vars

\* Create requests served one at a time by one worker whose steps are
\* weakly fair (a running handler keeps running, and a media service that
\* answers is answered to), with a media service that may also never answer.
UploadStallStep == \E p \in Procs : UploadStall(p)

StallNext ==
    \/ txn = <<>> /\ ReportItemStep({ReportBase})
    \/ CreateClaimBeginStep(1, CreateWellFormed({"2"}, {<<>>, <<"file">>}, VideoIn))
    \/ CreateClaimFinishStep
    \/ UploadStallStep

StallSpec ==
    /\ Init
    /\ [][StallNext]_vars
    /\ WF_vars(CreateClaimFinishStep)

\* ------------------------------------------------------------------ claims
\* The transition table of the specification, written out pair by pair.
TablePairs ==
    {<<"pending", "verified">>, <<"pending", "returned">>, <<"pending", "rejected">>,
     <<"verified", "returned">>}

ItemOf(c) == IF c.item_type = "lost" THEN lost_items[c.item_id] ELSE found_items[c.item_id]

\* The status, after the step, of the item claim row c referred to before it
ItemStatusAfter(c) ==
    IF c.item_type = "lost" THEN lost_items'[c.item_id].status
    ELSE found_items'[c.item_id].status

C2_IllegalTransitionRejected ==
    [][\A n \in 1..Len(claims), s \in {"verified", "returned", "rejected"} :
          <<claims[n].status, s>> \notin TablePairs
          => \A d \in {"", "admin"} :
                VerifyClaimBegin(1, [identity |-> "1", claim_id |-> n,
                                     new_status |-> s, details |-> d])
                => /\ resp'.op = "verify_claim"
                   /\ resp'.code = 400
                   /\ resp'.error \in {"already_in_status", "invalid_transition"}
                   /\ claims' = claims
                   /\ lost_items' = lost_items
                   /\ found_items' = found_items
                   /\ txn' = txn]_vars

C2_Witness ==
    /\ resp = Response("verify_claim", 400, "invalid_transition")
    /\ \E i \in 1..Len(claims) :
          claims[i].status = "returned" /\ claims[i].verification_details = "claimer"

C4_AtMostOnePendingPerClaimer ==
    \A kind \in {"lost", "found"}, id \in 1..MaxItems, u \in DOMAIN users :
        Cardinality(PendingClaims(kind, id, u)) <= 1

\* The well-formed create requests that carry one proof image
ProofCarrying == CreateWellFormed({"1", "2"}, {<<"file">>}, {"none"})

\* The create request leaves every table as it was and opens no transaction
CreatesNothing == UNCHANGED store /\ txn' = txn

\* C5: served without interleaving, a create request with proof for an open
\* item is answered 400 duplicate-claim, leaving claims and media as they
\* were, when the claimer has a pending claim on that kind and id; when the
\* claimer has none on that exact kind and id (whatever else the claimer has
\* pending) it passes the checks and the claim is inserted.
C5_DuplicateBlockedOthersNot ==
    [][\A rq \in ProofCarrying :
          (/\ ItemExists(rq.item_type, rq.item_id)
           /\ ~ItemUnavailable(Table(rq.item_type)[rq.item_id])
           /\ CreateClaimBegin(1, rq))
          => IF \E i \in 1..Len(claims) :
                   /\ claims[i].item_type = rq.item_type
                   /\ claims[i].item_id = rq.item_id
                   /\ claims[i].claimer_id = IntOf[rq.identity]
                   /\ claims[i].status = "pending"
             THEN resp' = Response("create_claim", 400, "duplicate_claim") /\ CreatesNothing
             ELSE /\ Len(txn') = 1
                  /\ txn'[1].pc = "uploading"
                  /\ UNCHANGED resp]_vars

C5_Witness ==
    /\ resp = Response("create_claim", 400, "duplicate_claim")
    /\ \E i, j \in 1..Len(claims) :
          /\ claims[i].status = "pending"
          /\ claims[j].status = "pending"
          /\ claims[i].claimer_id = claims[j].claimer_id
          /\ claims[i].item_id = claims[j].item_id
          /\ claims[i].item_type # claims[j].item_type

\* The shapes of proof a create request can carry, as <<images, video>>: no
\* slot at all, an empty video slot only, one image, an empty image slot
\* only, a video only
ProofShapes ==
    {<<<<>>, "none">>, <<<<>>, "empty">>, <<<<"file">>, "none">>,
     <<<<"empty">>, "none">>, <<<<>>, "file">>}

\* Well-formed create requests for item (kind, id): claimer 2 with every
\* shape of proof, claimer 1 with one image
RequestsFor(kind, id) ==
    {[CreateBase EXCEPT !.item_type = kind, !.item_id = id,
                        !.images = ps[1], !.video = ps[2]] : ps \in ProofShapes}
    \cup {[CreateBase EXCEPT !.identity = "1", !.item_type = kind, !.item_id = id]}

\* C6 as stated: every create request against a claimed or closed item is
\* answered 400 item-unavailable and creates nothing.
C6_UnavailableAnswersUnavailable ==
    [][\A kind \in {"lost", "found"}, id \in 1..MaxItems :
          (/\ ItemExists(kind, id)
           /\ Table(kind)[id].status \in {"claimed", "closed"})
          => \A rq \in RequestsFor(kind, id) :
                CreateClaimBegin(1, rq)
                => resp' = Response("create_claim", 400, "item_unavailable")
                   /\ CreatesNothing]_vars

\* C6: a create request against a claimed or closed item creates no claim and
\* no media, for both kinds and every claimer; it is answered 400
\* item-unavailable when it carries a proof slot and 400 proof-required when
\* it carries none.
C6_UnavailableCreatesNothing ==
    [][\A kind \in {"lost", "found"}, id \in 1..MaxItems :
          (/\ ItemExists(kind, id)
           /\ Table(kind)[id].status \in {"claimed", "closed"})
          => \A rq \in RequestsFor(kind, id) :
                CreateClaimBegin(1, rq)
                => /\ CreatesNothing
                   /\ resp' = IF rq.images # <<>> \/ rq.video = "file"
                              THEN Response("create_claim", 400, "item_unavailable")
                              ELSE Response("create_claim", 400, "proof_required")]_vars

C6_Witness ==
    /\ resp = Response("create_claim", 400, "item_unavailable")
    /\ \E n \in 1..Len(lost_items) : lost_items[n].status = "closed"
    /\ \E n \in 1..Len(found_items) : found_items[n].status = "claimed"

C8_EveryClaimHasMedia == \A i \in 1..Len(claims) : Len(MediaOfClaim(i)) >= 1

\* No claim is verified or returned while the existing item it refers to is
\* still in its initial open status
NoHalfVerified ==
    \A i \in 1..Len(claims) :
        (claims[i].status \in {"verified", "returned"} /\ HasItem(claims[i]))
            => ItemOf(claims[i]).status # InitialStatus(claims[i].item_type)

\* C9: with requests served concurrently, every step leaves a state in which
\* no verified or returned claim refers to an existing item still in its
\* initial open status, and a verify whose commit fails leaves the claim,
\* the item and every other row as they were.
C9_ClaimAndItemCommitTogether ==
    [][/\ NoHalfVerified'
       /\ \A p \in Procs :
             (p \in 1..Len(txn) /\ VerifyClaimCommit(p, FALSE))
                 => /\ UNCHANGED store
                    /\ resp' = Response("verify_claim", 500, "internal")]_vars

C9_Witness ==
    /\ resp = Response("verify_claim", 500, "internal")
    /\ \E p \in 1..Len(txn) : txn[p].pc = "verifying"
    /\ \E i \in 1..Len(claims) :
          /\ claims[i].status = "verified"
          /\ ItemOf(claims[i]).status = "claimed"

\* C10: a verify request by a user without the admin role is answered 403
\* whether or not the claim id exists, and one by the administrator for a
\* claim id that does not exist is answered 404; neither changes a claim, an
\* item or any other row, nor leaves a transaction open.
C10_ForbiddenAndNotFound ==
    [][\A n \in 1..MaxClaims, s \in {"verified", "returned", "rejected"}, d \in {"", "admin"} :
          /\ VerifyClaimBegin(1, [identity |-> "2", claim_id |-> n,
                                  new_status |-> s, details |-> d])
             => /\ resp' = Response("verify_claim", 403, "forbidden")
                /\ UNCHANGED store
                /\ txn' = txn
          /\ (n > Len(claims) /\ VerifyClaimBegin(1, [identity |-> "1", claim_id |-> n,
                                                      new_status |-> s, details |-> d]))
             => /\ resp' = Response("verify_claim", 404, "claim_not_found")
                /\ UNCHANGED store
                /\ txn' = txn]_vars

C10_Witness ==
    /\ resp = Response("verify_claim", 403, "forbidden")
    /\ Len(claims) = 1
    /\ claims[1].status = "pending"

\* The URL values a serialized media list shows, in any field
UrlsOfMedia(media) ==
    {media[k].preview_url : k \in 1..Len(media)} \cup {media[k].url : k \in 1..Len(media)}

\* The URL values a serialized item / claim shows, in any field
UrlsOfItemDict(d) == {d.image_url} \cup UrlsOfMedia(d.media)

UrlsOfClaimDict(d) == {d.item_image_url} \cup UrlsOfMedia(d.item_media)

\* The original URLs of the stored media attachments (the url column)
OriginalUrls == {item_media[k].url : k \in 1..Len(item_media)}

\* C11: in every reachable state the default serialization of every item
\* and of every claim shows no original URL of a media attachment in any of
\* its fields.
C11_DefaultSerializationHidesOriginals ==
    /\ \A kind \in {"lost", "found"}, id \in 1..MaxItems :
          ItemExists(kind, id)
              => UrlsOfItemDict(ItemToDict(kind, id, FALSE)) \cap OriginalUrls = {}
    /\ \A id \in 1..Len(claims) :
          UrlsOfClaimDict(ClaimToDict(id, FALSE)) \cap OriginalUrls = {}

\* The number of slots of a proof list that hold a file
RECURSIVE FilesIn(_)
FilesIn(files) ==
    IF files = <<>> THEN 0
    ELSE (IF Head(files) = "file" THEN 1 ELSE 0) + FilesIn(Tail(files))

\* The media rows of claim id after the step, in insertion order
MediaAfter(id) == SelectSeq(claim_media', LAMBDA m : m.claim_id = id)

\* C12: a create request with N >= 1 proof images (and possibly a video)
\* whose uploads and commit all succeed is answered 201 and adds one claim,
\* pending, with exactly N image rows (plus one video row when a video was
\* sent) of its own; exactly one of them is primary, the first uploaded; the
\* rows of other claims stay as they were.
C12_OneClaimNMediaFirstPrimary ==
    [][\A p \in Procs :
          (/\ p \in 1..Len(txn)
           /\ FilesIn(txn[p].images) >= 1
           /\ CreateClaimFinish(p, 0, TRUE))
          => /\ resp' = Response("create_claim", 201, "")
             /\ Len(claims') = Len(claims) + 1
             /\ SubSeq(claims', 1, Len(claims)) = claims
             /\ claims'[Len(claims')].status = "pending"
             /\ SubSeq(claim_media', 1, Len(claim_media)) = claim_media
             /\ Len(claim_media') = Len(claim_media) + Len(MediaAfter(Len(claims')))
             /\ Len(SelectSeq(MediaAfter(Len(claims')), LAMBDA m : m.media_type = "image"))
                    = FilesIn(txn[p].images)
             /\ Len(SelectSeq(MediaAfter(Len(claims')), LAMBDA m : m.media_type = "video"))
                    = (IF txn[p].video = "file" THEN 1 ELSE 0)
             /\ Len(SelectSeq(MediaAfter(Len(claims')), LAMBDA m : m.is_primary)) = 1
             /\ MediaAfter(Len(claims'))[1].is_primary
             /\ MediaAfter(Len(claims'))[1].media_type = "image"]_vars

C12_Witness ==
    /\ resp = Response("create_claim", 201, "")
    /\ Len(claims) = 1
    /\ claims[1].status = "pending"
    /\ Len(claim_media) = 2
    /\ \A k \in 1..2 : claim_media[k].claim_id = 1 /\ claim_media[k].media_type = "image"
    /\ claim_media[1].is_primary
    /\ ~claim_media[2].is_primary

\* C13: when the media service fails the k-th upload of a create request
\* (an image for k up to the number of files, else the video), the request
\* is answered 400 with that upload's error and the claims, the media and
\* every other table are as before the call.
C13_UploadFailureRollsBack ==
    [][\A p \in Procs, k \in 1..(MaxFiles + 1) :
          (/\ p \in 1..Len(txn)
           /\ txn[p].pc = "uploading"
           /\ k <= FilesIn(txn[p].images) + (IF txn[p].video = "file" THEN 1 ELSE 0)
           /\ \E commit_ok \in BOOLEAN : CreateClaimFinish(p, k, commit_ok))
          => /\ resp' = Response("create_claim", 400,
                                 IF k <= FilesIn(txn[p].images) THEN "image_upload_failed"
                                 ELSE "video_upload_failed")
             /\ UNCHANGED store
             /\ txn' = Close(p)]_vars

C13_Witness ==
    /\ resp = Response("create_claim", 400, "video_upload_failed")
    /\ Len(claims) = 1
    /\ Len(claim_media) = 2
    /\ txn = <<>>

\* Create requests with a parsable subject, a body, details within bounds,
\* for every kind tag (a valid one or not), every item id from 1 (existing or
\* not), with and without proof, by a user with a row or without one
OrderRequests ==
    {[CreateBase EXCEPT !.identity = u, !.item_type = k, !.item_id = n, !.images = f] :
        u \in {"1", "2", "3"}, k \in {"lost", "found", "other"},
        n \in 1..(MaxItems + 1), f \in {<<>>, <<"file">>}}

\* The claimer has a pending claim on the item the request names
HasPending(rq) ==
    \E i \in 1..Len(claims) :
        /\ claims[i].item_type = rq.item_type
        /\ claims[i].item_id = rq.item_id
        /\ claims[i].claimer_id = IntOf[rq.identity]
        /\ claims[i].status = "pending"

\* The failure the specification's order of preconditions reports: kind,
\* item exists, claimer resolvable, item status, proof, duplicate
SpecOrder(rq) ==
    IF rq.item_type \notin {"lost", "found"} THEN "validation_error"
    ELSE IF rq.item_id \notin 1..Len(Table(rq.item_type)) THEN "item_not_found"
    ELSE IF IntOf[rq.identity] \notin DOMAIN users THEN "internal"
    ELSE IF Table(rq.item_type)[rq.item_id].status \in {"claimed", "closed"}
         THEN "item_unavailable"
    ELSE IF rq.images = <<>> THEN "proof_required"
    ELSE IF HasPending(rq) THEN "duplicate_claim"
    ELSE "flushed"

\* The order the handler follows: kind, item exists, proof, item status,
\* duplicate, and the claimer's user row only at the insert
CodeOrder(rq) ==
    IF rq.item_type \notin {"lost", "found"} THEN "validation_error"
    ELSE IF rq.item_id \notin 1..Len(Table(rq.item_type)) THEN "item_not_found"
    ELSE IF rq.images = <<>> THEN "proof_required"
    ELSE IF Table(rq.item_type)[rq.item_id].status \in {"claimed", "closed"}
         THEN "item_unavailable"
    ELSE IF HasPending(rq) THEN "duplicate_claim"
    ELSE IF IntOf[rq.identity] \notin DOMAIN users THEN "internal"
    ELSE "flushed"

C15_ItemStatusInDomain ==
    /\ \A n \in 1..Len(lost_items) : lost_items[n].status \in {"pending", "claimed", "closed"}
    /\ \A n \in 1..Len(found_items) :
          found_items[n].status \in {"available", "claimed", "closed"}

C15_Witness ==
    /\ \E n \in 1..Len(lost_items) : lost_items[n].status = "closed"
    /\ \E n \in 1..Len(found_items) : found_items[n].status = "claimed"

\* The status of item (kind, id) after the step
StatusAfter(kind, id) ==
    IF kind = "lost" THEN lost_items'[id].status ELSE found_items'[id].status

\* C16: items are never removed, and a step changes the status of an
\* existing item only when it is the commit of a verify with new status
\* verified or returned on a claim that refers to that item; item creation,
\* create requests, reads, failed verifies and verifies of claims on other
\* items leave it as it was.
C16_OnlyVerifyChangesItemStatus ==
    [][/\ Len(lost_items') >= Len(lost_items)
       /\ Len(found_items') >= Len(found_items)
       /\ \A kind \in {"lost", "found"}, id \in 1..MaxItems :
             (ItemExists(kind, id) /\ StatusAfter(kind, id) # Table(kind)[id].status)
             => \E p \in 1..Len(txn) :
                   /\ txn[p].pc = "verifying"
                   /\ txn[p].new_status \in {"verified", "returned"}
                   /\ claims[txn[p].claim_id].item_type = kind
                   /\ claims[txn[p].claim_id].item_id = id
                   /\ VerifyClaimCommit(p, TRUE)]_vars

C16_Witness ==
    /\ resp = Response("get_claim_media", 200, "")
    /\ \E n \in 1..Len(lost_items) : lost_items[n].status = "claimed"
    /\ \E n \in 1..Len(found_items) : found_items[n].status = "available"
    /\ \E i \in 1..Len(claims) : claims[i].status = "rejected"

C18_ClosedOnlyAfterClaimed ==
    [][\A kind \in {"lost", "found"}, id \in 1..MaxItems :
          (/\ ItemExists(kind, id)
           /\ StatusAfter(kind, id) = "closed"
           /\ Table(kind)[id].status # "closed")
          => Table(kind)[id].status = "claimed"]_vars

\* C19: an item whose status is closed is closed after every step.
C19_ClosedStaysClosed ==
    [][\A kind \in {"lost", "found"}, id \in 1..MaxItems :
          (ItemExists(kind, id) /\ Table(kind)[id].status = "closed")
          => StatusAfter(kind, id) = "closed"]_vars

\* The URL values the output of get_claim_media shows, in any field
UrlsOfClaimMediaOutput(r) ==
    UNION {UrlsOfClaimDict(r.claim[k]) : k \in 1..Len(r.claim)}
        \cup UNION {UrlsOfItemDict(r.item[k]) : k \in 1..Len(r.item)}

\* C20: in every reachable state get_claim_media is answered 403 for a
\* subject that is no administrator and 404 for a claim id without a row,
\* and for the administrator and an existing claim it is answered 200 with
\* the original URL of every media attachment of the claim's item and of
\* every proof media attachment of the claim.
C20_ClaimMediaShowsAllOriginals ==
    \A id \in 1..MaxClaims :
        /\ \A u \in {"2", "3"} : GetClaimMediaResult(u, id).code = 403
        /\ ~ClaimExists(id) => GetClaimMediaResult("1", id).code = 404
        /\ ClaimExists(id)
           => /\ GetClaimMediaResult("1", id).code = 200
              /\ \A k \in 1..Len(item_media) :
                    (/\ item_media[k].item_type = claims[id].item_type
                     /\ item_media[k].item_id = claims[id].item_id)
                    => item_media[k].url \in UrlsOfClaimMediaOutput(GetClaimMediaResult("1", id))
              /\ \A k \in 1..Len(claim_media) :
                    claim_media[k].claim_id = id
                    => claim_media[k].url \in UrlsOfClaimMediaOutput(GetClaimMediaResult("1", id))

\* The operations of the read routes
ReadOps ==
    {"get_claim_media", "get_user_claims", "get_all_claims", "get_claim",
     "get_lost_items", "get_found_items", "get_lost_item", "get_found_item"}

\* C21: every step that ends with the response of a read route
\* (get_claim_media, get_user_claims, get_all_claims, get_claim, the item
\* lists, the item gets), whatever the caller and the outcome, leaves every
\* table (items, item media, claims, claim media) as it was.
C21_ReadsChangeNothing ==
    [][resp'.op \in ReadOps => store' = store]_vars

\* Both claims exist, one of them verified, and the administrator has just
\* been served the list of all claims.
C21_Witness ==
    /\ Len(claims) = MaxClaims
    /\ \E i \in 1..Len(claims) : claims[i].status = "verified"
    /\ resp = Response("get_all_claims", 200, "")

\* C30: in every reachable state get_all_claims, under every filter, is
\* answered 403 without any claim for a user without the admin role and for
\* a subject without a user row, and the administrator is served every
\* claim row when no filter is given.
C30_ListAllClaimsAdminOnly ==
    /\ \A u \in {"2", "3"}, status \in ListFilters :
          /\ GetAllClaimsResult(u, status).code = 403
          /\ GetAllClaimsResult(u, status).claims = <<>>
    /\ GetAllClaimsResult("1", "").code = 200
    /\ Len(GetAllClaimsResult("1", "").claims) = Len(claims)

\* A user without the admin role has just been refused the list while
\* claims exist.
C30_Witness ==
    /\ Len(claims) >= 1
    /\ resp = Response("get_all_claims", 403, "forbidden")

\* C22: every item a report request creates is owned by the user the
\* request's token names, whatever user_id / finder_id the body carries.
C22_ItemOwnerIsCaller ==
    [][\A kind \in {"lost", "found"}, rq \in ItemRequests :
          (ReportItem(kind, rq, 0, TRUE) /\ Len(Table(kind)') > Len(Table(kind)))
          => Table(kind)'[Len(Table(kind)')].user_id = IntOf[rq.identity]]_vars

ReportOps == {"report_lost_item", "report_found_item"}

\* C23: a report request without a title is answered 400 (validation), and
\* an otherwise well-formed one whose owner / finder id has no user row is
\* answered 404 (user not found); every step that ends with a report
\* response other than 201 leaves every table as it was; and every item
\* row a step adds has the initial status of its kind (pending for lost,
\* available for found), whatever the request held.
C23_NewItemsStartOpen ==
    /\ [](\A rq \in ItemRequests, failAt \in 0..(MaxFiles + 1), commit_ok \in BOOLEAN :
            LET r == ReportItemResult(rq, failAt, commit_ok)
                owner == OwnerRef(rq.body_id, rq.identity)
            IN  /\ rq.title = ""
                   => (~r.ok /\ r.code = 400 /\ r.error = "validation_error")
                /\ (/\ rq.has_data /\ rq.title = "title" /\ rq.fields_ok
                    /\ rq.image_url # "malformed"
                    /\ owner.valid /\ ~(owner.id \in DOMAIN users))
                   => (~r.ok /\ r.code = 404 /\ r.error = "user_not_found"))
    /\ [][/\ (resp'.op \in ReportOps /\ resp'.code # 201) => store' = store
          /\ \A kind \in {"lost", "found"} :
                Len(Table(kind)') > Len(Table(kind))
                => Table(kind)'[Len(Table(kind)')].status
                       = (IF kind = "lost" THEN "pending" ELSE "available")]_vars

\* An item exists in its initial status and a report naming an owner without
\* a user row has just been answered 404.
C23_Witness ==
    /\ Len(lost_items) >= 1
    /\ lost_items[1].status = "pending"
    /\ resp = Response("report_found_item", 404, "user_not_found")

UploadErrors == {"image_upload_failed", "video_upload_failed"}

\* C24: a report request that passes validation and names an existing owner
\* is answered 400 (upload failed) when the media service fails any of the
\* uploads it attempts, an image or the video after the images; and every
\* step that ends with that answer leaves the item and item media tables
\* (and every other table) as they were.
C24_ItemUploadFailureRollsBack ==
    /\ [](\A rq \in ItemRequests, failAt \in 1..(MaxFiles + 1) :
            LET r == ReportItemResult(rq, failAt, TRUE)
                owner == OwnerRef(rq.body_id, rq.identity)
            IN  (/\ rq.has_data /\ rq.title = "title" /\ rq.fields_ok
                 /\ rq.image_url # "malformed"
                 /\ owner.valid /\ owner.id \in DOMAIN users
                 /\ failAt <= Cardinality({i \in 1..Len(rq.images) : rq.images[i] = "file"})
                                + (IF rq.video = "file" THEN 1 ELSE 0))
                => (~r.ok /\ r.code = 400 /\ r.error \in UploadErrors))
    /\ [][(resp'.op \in ReportOps /\ resp'.error \in UploadErrors) => store' = store]_vars

\* One lost item with its media exists, and a found item's report has just
\* failed at the video upload, after its images: no found item and no media
\* of a found item exist.
C24_Witness ==
    /\ Len(lost_items) = 1
    /\ Len(found_items) = 0
    /\ Len(item_media) >= 1
    /\ \A k \in 1..Len(item_media) : item_media[k].item_type = "lost"
    /\ resp = Response("report_found_item", 400, "video_upload_failed")

\* The media rows of one item, in the order they were added
RowsOfItem(kind, id) ==
    SelectSeq(item_media, LAMBDA m : m.item_type = kind /\ m.item_id = id)

\* At most one row of a sequence of media rows is primary, and when the
\* sequence holds an image row (an upload or a legacy URL) the first image
\* row is the primary one.
OnePrimaryFirstImage(rows) ==
    LET imgs == SelectSeq(rows, LAMBDA m : m.media_type = "image")
    IN  /\ Cardinality({k \in 1..Len(rows) : rows[k].is_primary}) <= 1
        /\ Len(imgs) >= 1 => imgs[1].is_primary

\* C25: in every reachable state, for every item and for every claim, at
\* most one media row is primary, and when the item or claim has image rows
\* the first image stored (the first uploaded in submission order, also
\* when earlier slots were empty and skipped, or the legacy URL) is the
\* primary one.
C25_OnePrimaryFirstImage ==
    /\ \A kind \in {"lost", "found"}, id \in 1..MaxItems :
          ItemExists(kind, id) => OnePrimaryFirstImage(RowsOfItem(kind, id))
    /\ \A id \in 1..MaxClaims :
          ClaimExists(id) => OnePrimaryFirstImage(MediaOfClaim(id))

\* C26: a verify request by the administrator whose status equals the
\* claim's current status is answered 400 for every current status (as
\* "already in that status" for verified, returned and rejected, as a
\* validation error for pending, which is no accepted value), and the step
\* leaves every claim, every item and every other table as it was and opens
\* no transaction.
C26_SameStatusRejected ==
    [][\A n \in 1..MaxClaims, d \in {"", "admin"} :
          (/\ ClaimExists(n)
           /\ VerifyClaimBegin(1, [identity |-> "1", claim_id |-> n,
                                   new_status |-> claims[n].status, details |-> d]))
          => /\ resp' = Response("verify_claim", 400,
                                 IF claims[n].status = "pending"
                                 THEN "validation_error" ELSE "already_in_status")
             /\ store' = store
             /\ txn' = txn]_vars

\* A rejected and a verified claim exist and a request for a claim's own
\* status has just been refused.
C26_Witness ==
    /\ Len(claims) = 2
    /\ claims[1].status = "rejected"
    /\ claims[2].status = "verified"
    /\ resp = Response("verify_claim", 400, "already_in_status")

\* C27: the successful commit of a verify request with status rejected
\* changes the claim it names and nothing else: the claim becomes rejected,
\* its details are replaced only when the request carried some, its item
\* reference and claimer stay, and every item, every other claim and every
\* media row stay as they were.
C27_RejectChangesOnlyTheClaim ==
    [][\A p \in Procs :
          (/\ p \in 1..Len(txn)
           /\ txn[p].pc = "verifying"
           /\ txn[p].new_status = "rejected"
           /\ VerifyClaimCommit(p, TRUE))
          => /\ lost_items' = lost_items
             /\ found_items' = found_items
             /\ item_media' = item_media
             /\ claim_media' = claim_media
             /\ Len(claims') = Len(claims)
             /\ \A j \in 1..Len(claims) :
                   IF j = txn[p].claim_id
                   THEN /\ claims'[j].status = "rejected"
                        /\ claims'[j].item_id = claims[j].item_id
                        /\ claims'[j].item_type = claims[j].item_type
                        /\ claims'[j].claimer_id = claims[j].claimer_id
                        /\ claims'[j].verification_details
                               = (IF txn[p].details # "" THEN txn[p].details
                                  ELSE claims[j].verification_details)
                   ELSE claims'[j] = claims[j]]_vars

\* A claim has been rejected with details from the administrator while its
\* item is still open and a claim on another item is verified.
C27_Witness ==
    /\ Len(claims) = 2
    /\ claims[1].status = "rejected"
    /\ claims[1].verification_details = "admin"
    /\ HasItem(claims[1])
    /\ GetItem(claims[1]).status = InitialStatus(claims[1].item_type)
    /\ claims[2].status = "verified"
    /\ resp = Response("verify_claim", 200, "")

\* C28: a create request that is well formed and carries proof, sent with a
\* token whose subject has no user row, is refused with a reason of its own
\* and not as an internal error (500), and the step stores nothing; and
\* after every step the claimer of every claim row is an existing user.
C28_UnknownClaimerRefused ==
    [][/\ CreateClaimBegin(1, [CreateBase EXCEPT !.identity = "3"])
          => /\ resp'.code # 500
             /\ resp'.error # "internal"
             /\ store' = store
             /\ txn' = txn
       /\ \A i \in 1..Len(claims') : claims'[i].claimer_id \in DOMAIN users]_vars

\* A claim's (item_type, item_id) names a row of the table its tag selects
RefResolves(c) ==
    \/ c.item_type = "lost" /\ c.item_id \in 1..Len(lost_items)
    \/ c.item_type = "found" /\ c.item_id \in 1..Len(found_items)

\* C29: in every reachable state every claim's (item_type, item_id) names an
\* existing row of the table its tag selects, and the item status the claim
\* is serialized with is that row's; and the commit of a verify request on a
\* claim tagged lost leaves the found table as it was (and one on a claim
\* tagged found the lost table), also when both tables hold a row with the
\* claim's item id.
C29_ClaimsResolveInTheirTable ==
    /\ [](\A i \in 1..Len(claims) :
            /\ RefResolves(claims[i])
            /\ ClaimToDict(i, FALSE).item_status
                   = (IF claims[i].item_type = "lost"
                      THEN lost_items[claims[i].item_id].status
                      ELSE found_items[claims[i].item_id].status))
    /\ [][\A p \in Procs :
             (/\ p \in 1..Len(txn)
              /\ txn[p].pc = "verifying"
              /\ VerifyClaimCommit(p, TRUE))
             => /\ claims[txn[p].claim_id].item_type = "lost" => found_items' = found_items
                /\ claims[txn[p].claim_id].item_type = "found" => lost_items' = lost_items]_vars

\* A lost and a found item share id 1; the claim on the lost one is
\* verified and the lost item claimed, while the found item is still
\* available.
C29_Witness ==
    /\ Len(lost_items) >= 1 /\ Len(found_items) >= 1
    /\ \E i \in 1..Len(claims) :
          /\ claims[i].item_type = "lost" /\ claims[i].item_id = 1
          /\ claims[i].status = "verified"
    /\ lost_items[1].status = "claimed"
    /\ found_items[1].status = "available"

\* C31: whenever a create_claim holds an open transaction, the transaction
\* is eventually closed by a commit or a rollback, also when the media
\* service never answers an upload.
C31_OpenTransactionIsReleased ==
    (Len(txn) > 0) ~> (Len(txn) = 0)

\* C32: with verify requests served concurrently, every change of a claim's
\* committed status is a move of the transition table (pending to verified,
\* returned or rejected; verified to returned), and in every reachable state
\* an item that is claimed while a claim on it is rejected has a verified
\* claim on it.
C32_ConcurrentVerifyFollowsTable ==
    /\ [][\A i \in 1..Len(claims) :
             claims'[i].status # claims[i].status
             => claims'[i].status \in allowed_transitions(claims[i].status)]_vars
    /\ [](\A i \in 1..Len(claims) :
             (/\ claims[i].status = "rejected"
              /\ HasItem(claims[i])
              /\ GetItem(claims[i]).status = "claimed")
             => \E j \in 1..Len(claims) :
                   /\ claims[j].item_type = claims[i].item_type
                   /\ claims[j].item_id = claims[i].item_id
                   /\ claims[j].status = "verified")

\* C33: with requests served concurrently, every step that commits a new
\* claim leaves the claim's item in its initial open status: no pending
\* claim is committed for an item that is claimed or closed at that moment.
C33_NoNewClaimOnTakenItem ==
    [][Len(claims') > Len(claims)
       => /\ claims'[Len(claims')].status = "pending"
          /\ ItemStatusAfter(claims'[Len(claims')])
                 = InitialStatus(claims'[Len(claims')].item_type)]_vars

\* The statuses of the claims that refer to item (kind, id)
ClaimStatusesOn(kind, id) ==
    {claims[i].status : i \in {j \in 1..Len(claims) : /\ claims[j].item_type = kind
                                                      /\ claims[j].item_id = id}}

\* C34: with requests served one at a time, in every reachable state an item
\* whose status is claimed has a verified claim that refers to it, and an
\* item whose status is closed has a returned claim that refers to it.
C34_ItemStatusHasItsClaim ==
    \A kind \in {"lost", "found"}, id \in 1..MaxItems :
        ItemExists(kind, id)
        => /\ Table(kind)[id].status = "claimed" => "verified" \in ClaimStatusesOn(kind, id)
           /\ Table(kind)[id].status = "closed" => "returned" \in ClaimStatusesOn(kind, id)

\* Two claimers hold claims on the same item: one was verified, then the
\* other returned, and the item is closed.
C34_Witness ==
    \E kind \in {"lost", "found"}, id \in 1..MaxItems :
        /\ ItemExists(kind, id)
        /\ Table(kind)[id].status = "closed"
        /\ ClaimStatusesOn(kind, id) = {"verified", "returned"}

\* C35: in every reachable state each item has at most one claim with status
\* verified.
C35_AtMostOneVerifiedPerItem ==
    \A kind \in {"lost", "found"}, id \in 1..MaxItems :
        Cardinality({i \in 1..Len(claims) : /\ claims[i].item_type = kind
                                            /\ claims[i].item_id = id
                                            /\ claims[i].status = "verified"}) <= 1

\* C36: the successful commit of a verify request sets the claim's status to
\* the requested one, replaces its verification details by the request's
\* when the request carried non-empty details, and keeps the stored details
\* (those written at creation or by an earlier verify) when it carried none.
C36_DetailsReplacedOnlyWhenGiven ==
    [][\A p \in Procs :
          (/\ p \in 1..Len(txn)
           /\ txn[p].pc = "verifying"
           /\ VerifyClaimCommit(p, TRUE))
          => /\ claims'[txn[p].claim_id].status = txn[p].new_status
             /\ claims'[txn[p].claim_id].verification_details
                    = (IF txn[p].details # "" THEN txn[p].details
                       ELSE claims[txn[p].claim_id].verification_details)]_vars

\* One claim was verified without details and still carries the claimer's,
\* another was verified with details and carries the administrator's.
C36_Witness ==
    /\ Len(claims) = 2
    /\ claims[1].status = "verified" /\ claims[1].verification_details = "claimer"
    /\ claims[2].status = "verified" /\ claims[2].verification_details = "admin"
    /\ resp = Response("verify_claim", 200, "")

VerifyTargets == {"verified", "returned", "rejected"}

\* C37: in every execution no claim goes through three successive statuses
\* after pending: once a claim has left pending for x and x for y, it never
\* takes a status other than y (at most two successful status changes).
C37_AtMostTwoStatusChanges ==
    \A i \in 1..MaxClaims, x \in VerifyTargets : \A y \in VerifyTargets \ {x} :
        [](ClaimExists(i) /\ claims[i].status = x
           => [](ClaimExists(i) /\ claims[i].status = y
                 => [](ClaimExists(i) => claims[i].status = y)))

\* C38: with requests served concurrently, an item whose status is claimed
\* or closed is not in its initial open status (pending for lost, available
\* for found) after any step, rejections included; and in every reachable
\* state a well-formed create request with proof for such an item is refused
\* as item-unavailable.
C38_OpenStatusNeverReturns ==
    /\ [][\A kind \in {"lost", "found"}, id \in 1..MaxItems :
             (ItemExists(kind, id) /\ Table(kind)[id].status \in {"claimed", "closed"})
             => StatusAfter(kind, id) \in {"claimed", "closed"}]_vars
    /\ [](\A kind \in {"lost", "found"}, id \in 1..MaxItems, u \in {"1", "2"} :
             (ItemExists(kind, id) /\ Table(kind)[id].status \in {"claimed", "closed"})
             => CreateClaimChecks([CreateBase EXCEPT !.identity = u, !.item_type = kind,
                                                     !.item_id = id]).error
                    = "item_unavailable")

\* An item is claimed, a claim on it has been rejected, and a new create
\* request for it has just been refused.
C38_Witness ==
    /\ \E i \in 1..Len(claims) :
          /\ claims[i].status = "rejected"
          /\ ItemOf(claims[i]).status = "claimed"
    /\ resp = Response("create_claim", 400, "item_unavailable")

\* The claims of claimer u on item (kind, id) that have the given status
ClaimsOfOn(u, kind, id, status) ==
    {i \in 1..Len(claims) : /\ claims[i].claimer_id = u
                            /\ claims[i].item_type = kind
                            /\ claims[i].item_id = id
                            /\ claims[i].status = status}

====
